---- MODULE Spec2Model ----
(***************************************************************************)
(* A model of sqlstate (src/sqlstate/__init__.py): the schema-reflection   *)
(* cache (SchemaContainer), the namespace built from it, and the blocking  *)
(* and non-blocking state objects that own an engine and hand out          *)
(* connection handles.                                                     *)
(*                                                                         *)
(* Python objects are modelled with reference semantics: engines,          *)
(* containers, namespaces and state objects live in heaps (sequences) and  *)
(* are referred to by their index.  The driver engine is an external       *)
(* collaborator; it is modelled by its observable counters: how often      *)
(* dispose() was invoked and how many connections are checked out.         *)
(***************************************************************************)
EXTENDS Naturals, Sequences, FiniteSets

VARIABLES
    db,          \* the database catalog: schema name -> relations present
    engines,     \* heap of driver engines, in creation order
    containers,  \* heap of published SchemaContainer objects
    namespaces,  \* heap of SimpleNamespace objects owned by state objects
    states,      \* heap of SqlState / AsyncSqlState objects
    handles,     \* the open acquisition scopes: SqlConnection / AsyncSqlConnection
    catalogLog,  \* the catalog round trips (MetaData.reflect calls), in order
    call,        \* the factory call made by the program and how far it got
    last,        \* observable outcome of the last operation
    waiting,     \* acquire() tasks suspended at the pool checkout
    tlsIn,       \* a configuration whose connect arguments are being rendered
    tlsOut       \* the connect arguments rendered from tlsIn

tlsVars == <<tlsIn, tlsOut>>

programVars == <<db, engines, containers, namespaces, states, handles, catalogLog,
                 call, last, waiting>>

vars == <<db, engines, containers, namespaces, states, handles, catalogLog, call, last,
          waiting, tlsIn, tlsOut>>

-----------------------------------------------------------------------------
(* Bounds of the model *)

\* schemas requested in one factory call
MaxSchemas == 2
\* connections the engine's pool hands out before a checkout fails; one
\* acquisition scope can be open per connection
PoolSize == 2
\* scope exits of one state object
MaxExits == 2
\* acquire() tasks that may be suspended at the pool checkout at one time
MaxWaiting == 1

-----------------------------------------------------------------------------
(* Value domains *)

\* aliases a caller may choose; "connection" is also a field of the handle
AliasNames == {"main", "aux", "connection"}

SchemaNames == {"public", "audit"}

\* relation names; "name" is also a field of SchemaContainer
RelNames == {"users", "name", "report"}

RelKind(n) == IF n = "report" THEN "view" ELSE "table"

EmptyNs == [a \in {} |-> 0]

\* the position of an alias in the order the caller writes them
AliasRank(a) == CASE a = "main" -> 1 [] a = "aux" -> 2 [] OTHER -> 3

\* **schemas: keyword arguments with distinct aliases, in the order given
\* (here always main, aux, connection), each naming any schema
SchemaRequests ==
    { q \in UNION { [1..n -> [alias : AliasNames, schema : SchemaNames]] : n \in 0..MaxSchemas } :
        \A i, j \in DOMAIN q : i < j => AliasRank(q[i].alias) < AliasRank(q[j].alias) }

NoResult == [kind |-> "none", schema |-> "", name |-> ""]

\* attempts: the pool checkouts the operation attempted
NoOp ==
    [op |-> "none", via |-> "", alias |-> "", name |-> "", result |-> NoResult,
     attempts |-> 0]

\* call.schemas, call.failAt and call.catalog record the inputs of the factory
\* call: the **schemas given, which reflection (if any) fails, and the
\* catalog as it is when the factory runs
NoCall ==
    [factory |-> "none", status |-> "idle", schemas |-> <<>>, failAt |-> 0,
     catalog |-> [sch \in {} |-> {}], state |-> 0, engine |-> 0]

-----------------------------------------------------------------------------
(* Configuration: SqlTlsConfig and the connect arguments rendered from it *)

\* an unset Optional[FilePath] field
None == "<None>"

\* an Optional record or mapping: <<>> is Python's None, <<x>> is the value x
Absent == <<>>

Given(x) == <<x>>

\* {}
EmptyArgs == [k \in {} |-> ""]

\* the values of SqlTlsConfig: three optional paths and the mode
TlsBlocks ==
    [serverCa : {None, "ca.pem"}, clientCert : {None, "cert.pem"},
     clientKey : {None, "key.pem"}, sslmode : {"verify-ca", "require"}]

\* the connect_args mappings a caller of asql_from_config passes
CallerArgValue ==
    [k \in {"sslmode", "sslcert", "connect_timeout"} |->
        IF k = "sslmode" THEN "disable"
        ELSE IF k = "sslcert" THEN "caller.pem" ELSE "10"]

CallerArgs ==
    {[k \in ks |-> CallerArgValue[k]] : ks \in SUBSET DOMAIN CallerArgValue}

\* config.tls and the connect_args keyword, each possibly None
TlsInputs ==
    [tls : {Absent} \cup {Given(b) : b \in TlsBlocks},
     connect_args : {Absent} \cup {Given(m) : m \in CallerArgs}]

NotRendered == [op |-> "none", args |-> EmptyArgs]

NoTlsInput == [tls |-> Absent, connect_args |-> Absent]

\* connect_params[k] = v
Put(m, k, v) == [x \in DOMAIN m \cup {k} |-> IF x = k THEN v ELSE m[x]]

\* a faulty to_connect_args: unset paths are stored as well
to_connect_args_unset_kept(tls) ==
    [k \in {"sslmode", "sslcert", "sslkey", "sslrootcert"} |->
        IF k = "sslmode" THEN tls.sslmode
        ELSE IF k = "sslcert" THEN tls.clientCert
        ELSE IF k = "sslkey" THEN tls.clientKey ELSE tls.serverCa]

\* SqlTlsConfig.to_connect_args()
to_connect_args(tls) ==
    LET p0 == [k \in {"sslmode"} |-> tls.sslmode]
        p1 == IF tls.clientCert # None THEN Put(p0, "sslcert", tls.clientCert) ELSE p0
        p2 == IF tls.clientKey # None THEN Put(p1, "sslkey", tls.clientKey) ELSE p1
        p3 == IF tls.serverCa # None THEN Put(p2, "sslrootcert", tls.serverCa) ELSE p2
    IN  p3

\* config.tls.to_connect_args() if config.tls else {}
tls_connect_args(tls) ==
    IF tls # Absent THEN to_connect_args(tls[1]) ELSE EmptyArgs

\* a faulty dict_merge: on a shared key the left operand's value is kept
dict_merge_left_wins(a, b) ==
    [k \in DOMAIN a \cup DOMAIN b |-> IF k \in DOMAIN a THEN a[k] ELSE b[k]]

\* {**a, **b}: on a shared key the right operand's value is kept
dict_merge(a, b) ==
    [k \in DOMAIN a \cup DOMAIN b |-> IF k \in DOMAIN b THEN b[k] ELSE a[k]]

\* the connect_args that sql_from_config passes to create_engine
sql_from_config_connect_args(tls) == tls_connect_args(tls)

\* the connect_args that asql_from_config passes to create_async_engine
asql_from_config_connect_args(tls, connect_args) ==
    dict_merge(IF connect_args # Absent THEN connect_args[1] ELSE EmptyArgs,
               tls_connect_args(tls))

-----------------------------------------------------------------------------
(* The driver engine, as this module uses it *)

\* create_engine / create_async_engine: no connection is made yet
NewEngine(kind, owner) ==
    [kind |-> kind, owner |-> owner, disposals |-> 0, checkedout |-> 0]

\* engine.dispose(): one more disposal; connections checked out stay so
engine_dispose(e) == [e EXCEPT !.disposals = @ + 1]

\* engine.connect().__enter__: a connection leaves the pool.  dispose()
\* replaces the pool and leaves the engine usable, so a disposed engine
\* checks connections out like a live one.
engine_checkout(e) == [e EXCEPT !.checkedout = @ + 1]

\* a faulty engine_release: the connection is never returned
engine_release_leak(e) == e

\* engine.connect().__exit__: the connection is returned to the pool
engine_release(e) == [e EXCEPT !.checkedout = @ - 1]

\* a faulty engine_connect: a failed checkout is tried once more
engine_connect_retry(e, reachable) ==
    IF ~reachable \/ e.checkedout >= PoolSize
    THEN [raised |-> TRUE, attempts |-> 2, engine |-> e]
    ELSE [raised |-> FALSE, attempts |-> 1, engine |-> engine_checkout(e)]

\* self.engine.connect(), called once: the checkout raises when the database
\* cannot be reached or the pool has no connection left, and succeeds
\* otherwise.  The engine afterwards and the checkouts attempted.
engine_connect(e, reachable) ==
    IF ~reachable \/ e.checkedout >= PoolSize
    THEN [raised |-> TRUE, attempts |-> 1, engine |-> e]
    ELSE [raised |-> FALSE, attempts |-> 1, engine |-> engine_checkout(e)]

\* a faulty connect_exit: the connection is returned in an `except
\* Exception` handler, which a cancellation (a BaseException) passes by
connect_exit_except_Exception(e, how) ==
    IF how = "cancelled" THEN e ELSE engine_release(e)

\* the with block around the yield of connect() / acquire() is left: the
\* body completed or returned ("ok"), raised ("error"), or the task was
\* cancelled while suspended in the body ("cancelled")
connect_exit(e, how) == engine_release(e)

\* MetaData.reflect(bind=engine, views=...): the relations of the schema now
Reflect(schema, views) ==
    { n \in db[schema] : views \/ RelKind(n) = "table" }

-----------------------------------------------------------------------------
(* SchemaContainer *)

\* __post_init__: one reflection pass, tables and views, cached in _metadata
SchemaContainer_post_init(schema) ==
    [name |-> schema, tables |-> Reflect(schema, TRUE)]

\* the instance attributes found by normal lookup, before __getattr__ is tried
OwnAttributes == {"name", "_metadata"}

TableDescriptor(schema, name) == [kind |-> "Table", schema |-> schema, name |-> name]

InvalidRequestError(schema, name) ==
    [kind |-> "InvalidRequestError", schema |-> schema, name |-> name]

\* Table(name, metadata, schema=..., mustexist=True)
Table_mustexist(c, name) ==
    IF name \in c.tables
    THEN TableDescriptor(c.name, name)
    ELSE InvalidRequestError(c.name, name)

\* a faulty SchemaContainer_getattr: Table(..., autoload_with=engine),
\* which reflects a table unknown to the metadata on demand
SchemaContainer_getattr_autoload(c, name) ==
    IF name \in c.tables
    THEN [result |-> TableDescriptor(c.name, name), tables |-> c.tables, trips |-> <<>>]
    ELSE IF name \in db[c.name]
         THEN [result |-> TableDescriptor(c.name, name),
               tables |-> c.tables \cup {name}, trips |-> <<c.name>>]
         ELSE [result |-> InvalidRequestError(c.name, name),
               tables |-> c.tables, trips |-> <<c.name>>]

\* container.<name>: an own attribute wins; otherwise __getattr__ runs.
\* The result, the container's table set afterwards and the round trips made.
SchemaContainer_getattr(c, name) ==
    IF name \in OwnAttributes
    THEN [result |-> [kind |-> IF name = "name" THEN "str" ELSE "MetaData",
                      schema |-> c.name, name |-> ""],
          tables |-> c.tables, trips |-> <<>>]
    ELSE [result |-> Table_mustexist(c, name), tables |-> c.tables, trips |-> <<>>]

-----------------------------------------------------------------------------
(* Namespace construction *)

AliasesOf(req) == { req[i].alias : i \in DOMAIN req }

IndexOfAlias(req, a) == CHOOSE i \in DOMAIN req : req[i].alias = a

\* a faulty make_schema_namespace: a failed reflection is swallowed and
\* the namespace of the schemas reflected so far is returned
make_schema_namespace_partial(base, req, failAt) ==
    LET done == IF failAt = 0 THEN Len(req) ELSE failAt - 1
        tried == IF failAt = 0 THEN Len(req) ELSE failAt
    IN  [raised |-> FALSE,
         built |-> [i \in 1..done |-> SchemaContainer_post_init(req[i].schema)],
         s |-> [a \in { req[i].alias : i \in 1..done } |-> base + IndexOfAlias(req, a)],
         trips |-> [i \in 1..tried |-> req[i].schema]]

\* a faulty make_schema_namespace: containers are built lazily, nothing
\* is reflected at construction
make_schema_namespace_lazy(base, req, failAt) ==
    [raised |-> FALSE,
     built |-> [i \in 1..Len(req) |-> [name |-> req[i].schema, tables |-> {}]],
     s |-> [a \in AliasesOf(req) |-> base + IndexOfAlias(req, a)],
     trips |-> <<>>]

\* _make_schema_namespace(engine, **schemas): one SchemaContainer per entry,
\* built eagerly in the order given.  failAt = 0: every reflection succeeds;
\* failAt = k: the k-th reflection raises and the comprehension is abandoned.
\* base is the number of containers that exist already.
make_schema_namespace(base, req, failAt) ==
    LET tried == IF failAt = 0 THEN Len(req) ELSE failAt
    IN  IF failAt = 0
        THEN [raised |-> FALSE,
              built |-> [i \in 1..Len(req) |-> SchemaContainer_post_init(req[i].schema)],
              s |-> [a \in AliasesOf(req) |-> base + IndexOfAlias(req, a)],
              trips |-> [i \in 1..tried |-> req[i].schema]]
        ELSE [raised |-> TRUE,
              built |-> <<>>,
              s |-> EmptyNs,
              trips |-> [i \in 1..tried |-> req[i].schema]]

\* SqlState.__init__(engine, **schemas): the heaps after it ran on engine e
SqlState_init(e, req, failAt) ==
    LET r == make_schema_namespace(Len(containers), req, failAt)
    IN  [raised |-> r.raised,
         containers |-> containers \o r.built,
         namespaces |-> IF r.raised THEN namespaces ELSE Append(namespaces, r.s),
         states |-> IF r.raised THEN states
                    ELSE Append(states, [kind |-> "SqlState", engine |-> e,
                                         s |-> Len(namespaces) + 1]),
         catalogLog |-> catalogLog \o r.trips]

\* a faulty AsyncSqlState_init: the namespace given is not kept
AsyncSqlState_init_no_namespace(e, ns) ==
    [kind |-> "AsyncSqlState", engine |-> e, s |-> 0]

\* AsyncSqlState.__init__(engine, schemas_namespace): keeps the namespace given
AsyncSqlState_init(e, ns) == [kind |-> "AsyncSqlState", engine |-> e, s |-> ns]

-----------------------------------------------------------------------------
(* Initial state: a database with some relations, nothing constructed *)

InitProgram ==
    /\ db = [sch \in SchemaNames |->
                IF sch = "public" THEN {"users", "name"} ELSE {"users", "report"}]
    /\ engines = <<>>
    /\ containers = <<>>
    /\ namespaces = <<>>
    /\ states = <<>>
    /\ handles = <<>>
    /\ catalogLog = <<>>
    /\ call = NoCall
    /\ last = NoOp
    /\ waiting = 0

Init ==
    /\ InitProgram
    /\ tlsIn = NoTlsInput
    /\ tlsOut = NotRendered

-----------------------------------------------------------------------------
(* The environment *)

\* another client creates a table or view in the database
DbCreate(sch, n) ==
    /\ n \notin db[sch]
    /\ db' = [db EXCEPT ![sch] = @ \cup {n}]
    /\ UNCHANGED <<waiting, tlsVars, engines, containers, namespaces, states, handles, catalogLog, call, last>>

\* the caller builds a blocking engine of its own with create_engine
CallerCreateEngine ==
    /\ call.factory = "none"
    /\ engines = <<>>
    /\ engines' = Append(engines, NewEngine("blocking", "caller"))
    /\ UNCHANGED <<waiting, tlsVars, db, containers, namespaces, states, handles, catalogLog, call, last>>

-----------------------------------------------------------------------------
(* Factory functions *)

Outcome(op, kind) ==
    [op |-> op, via |-> "", alias |-> "", name |-> "",
     result |-> [kind |-> kind, schema |-> "", name |-> ""], attempts |-> 0]

\* sql_from_config(config, **schemas)
sql_from_config(req, failAt) ==
    /\ call.factory = "none"
    /\ failAt <= Len(req)
    /\ engines = <<>>
    /\ LET engines1 == Append(engines, NewEngine("blocking", "sql_from_config"))
           r == SqlState_init(Len(engines1), req, failAt)
       IN  /\ engines' = engines1
           /\ containers' = r.containers
           /\ namespaces' = r.namespaces
           /\ states' = r.states
           /\ catalogLog' = r.catalogLog
           /\ call' = [factory |-> "sql_from_config",
                       status |-> IF r.raised THEN "raised" ELSE "returned",
                       schemas |-> req,
                       failAt |-> failAt,
                       catalog |-> db,
                       state |-> IF r.raised THEN 0 ELSE Len(r.states),
                       engine |-> 0]
           /\ last' = Outcome("sql_from_config",
                              IF r.raised THEN "ReflectionError" ELSE "SqlState")
    /\ UNCHANGED <<waiting, tlsVars, db, handles>>

\* async with asql_from_config(config, **schemas) as state: up to the yield
asql_from_config(req, failAt) ==
    /\ call.factory = "none"
    /\ failAt <= Len(req)
    /\ engines = <<>>
    /\ LET engines1 == Append(engines, NewEngine("nonblocking", "asql_from_config"))
           \* sql_from_config(config, **schemas), line 163
           engines2 == Append(engines1, NewEngine("blocking", "sql_from_config"))
           r == SqlState_init(Len(engines2), req, failAt)
       IN  /\ engines' = engines2
           /\ containers' = r.containers
           /\ namespaces' = r.namespaces
           /\ catalogLog' = r.catalogLog
           /\ states' = IF r.raised THEN r.states
                        ELSE Append(r.states,
                                    AsyncSqlState_init(Len(engines1),
                                                       r.states[Len(r.states)].s))
           /\ call' = [factory |-> "asql_from_config",
                       status |-> IF r.raised THEN "raised" ELSE "yielded",
                       schemas |-> req,
                       failAt |-> failAt,
                       catalog |-> db,
                       state |-> IF r.raised THEN 0 ELSE Len(r.states) + 1,
                       engine |-> 0]
           /\ last' = Outcome("asql_from_config",
                              IF r.raised THEN "ReflectionError" ELSE "AsyncSqlState")
    /\ UNCHANGED <<waiting, tlsVars, db, handles>>

\* a faulty asql_from_engine_aengine: the caller's engine is wrapped
asql_from_engine_aengine_reused(engine, aengine) == engine

\* the engine asql_from_engine hands to AsyncSqlState: aengine, the engine
\* derived from engine.url, not the caller's engine
asql_from_engine_aengine(engine, aengine) == aengine

\* async with asql_from_engine(engine, **schemas) as state: up to the yield
asql_from_engine(e, req, failAt) ==
    /\ call.factory = "none"
    /\ failAt <= Len(req)
    /\ e \in DOMAIN engines
    /\ engines[e].owner = "caller"
    /\ LET engines1 == Append(engines, NewEngine("nonblocking", "asql_from_engine"))
           r == SqlState_init(e, req, failAt)
       IN  /\ engines' = engines1
           /\ containers' = r.containers
           /\ namespaces' = r.namespaces
           /\ catalogLog' = r.catalogLog
           /\ states' = IF r.raised THEN r.states
                        ELSE Append(r.states,
                                    AsyncSqlState_init(
                                        asql_from_engine_aengine(e, Len(engines1)),
                                        r.states[Len(r.states)].s))
           /\ call' = [factory |-> "asql_from_engine",
                       status |-> IF r.raised THEN "raised" ELSE "yielded",
                       schemas |-> req,
                       failAt |-> failAt,
                       catalog |-> db,
                       state |-> IF r.raised THEN 0 ELSE Len(r.states) + 1,
                       engine |-> e]
           /\ last' = Outcome("asql_from_engine",
                              IF r.raised THEN "ReflectionError" ELSE "AsyncSqlState")
    /\ UNCHANGED <<waiting, tlsVars, db, handles>>

\* what the generator of asql_from_config / asql_from_engine does when the
\* caller's block ends (exc: the block raised): nothing follows the yield
factory_scope_exit(exc) == engines

\* the scope opened by asql_from_config / asql_from_engine exits
FactoryScopeExit(exc) ==
    /\ call.status = "yielded"
    /\ engines' = factory_scope_exit(exc)
    /\ call' = [call EXCEPT !.status = "exited"]
    /\ last' = Outcome("factory_exit", IF exc THEN "reraised" ELSE "ok")
    /\ UNCHANGED <<waiting, tlsVars, db, containers, namespaces, states, handles, catalogLog>>

-----------------------------------------------------------------------------
(* State objects: disposal *)

\* the state object the factory handed to the caller, if any
Held == IF call.state = 0 THEN {} ELSE {call.state}

\* SqlState.__exit__(exc_type, exc_val, exc_tb), for a normal or an
\* exceptional exit alike: self.engine.dispose()
SqlState_exit(i, exc) ==
    /\ i \in Held
    /\ states[i].kind = "SqlState"
    /\ engines[states[i].engine].disposals < MaxExits
    /\ engines' = [engines EXCEPT ![states[i].engine] = engine_dispose(@)]
    /\ last' = Outcome("exit", IF exc THEN "reraised" ELSE "ok")
    /\ UNCHANGED <<waiting, tlsVars, db, containers, namespaces, states, handles, catalogLog, call>>

\* AsyncSqlState.__aexit__(exc_type, exc_val, exc_tb): await self.engine.dispose()
AsyncSqlState_aexit(i, exc) ==
    /\ i \in Held
    /\ states[i].kind = "AsyncSqlState"
    /\ engines[states[i].engine].disposals < MaxExits
    /\ engines' = [engines EXCEPT ![states[i].engine] = engine_dispose(@)]
    /\ last' = Outcome("exit", IF exc THEN "reraised" ELSE "ok")
    /\ UNCHANGED <<waiting, tlsVars, db, containers, namespaces, states, handles, catalogLog, call>>

-----------------------------------------------------------------------------
(* Connection handles *)

\* parameter names of SqlConnection.__init__ / AsyncSqlConnection.__init__
\* that a keyword argument of the same name collides with
HandleParams == {"self", "connection"}

\* SqlConnection(c, **vars(self.s)) / AsyncSqlConnection(c, **vars(self.s)):
\* SimpleNamespace(**schemas) is a namespace object of the handle's own
\* (nsobj 0: none of the state objects' namespaces), holding the same
\* alias -> container references
SqlConnection_init(ns) ==
    IF DOMAIN ns \cap HandleParams # {}
    THEN [raised |-> TRUE, s |-> EmptyNs, nsobj |-> 0]
    ELSE [raised |-> FALSE, s |-> ns, nsobj |-> 0]

\* the generator of connect() / acquire() up to its yield, on state object i.
\* reachable = FALSE: the checkout fails (network drop, pool timeout).
Acquire(i, reachable) ==
    LET st == states[i]
        e == st.engine
        co == engine_connect(engines[e], reachable)
        hd == SqlConnection_init(namespaces[st.s])
    IN  /\ IF co.raised
           THEN /\ last' = [Outcome("acquire", "CheckoutError") EXCEPT
                               !.attempts = co.attempts]
                /\ engines' = [engines EXCEPT ![e] = co.engine]
                /\ UNCHANGED handles
           ELSE IF hd.raised
           THEN \* raised inside the with block: the connection is released
                /\ engines' = [engines EXCEPT ![e] = connect_exit(co.engine, "error")]
                /\ last' = [Outcome("acquire", "TypeError") EXCEPT
                               !.attempts = co.attempts]
                /\ UNCHANGED handles
           ELSE /\ engines' = [engines EXCEPT ![e] = co.engine]
                /\ handles' = Append(handles,
                                  [kind |-> IF st.kind = "SqlState" THEN "SqlConnection"
                                            ELSE "AsyncSqlConnection",
                                   state |-> i, engine |-> e, s |-> hd.s,
                                   nsobj |-> hd.nsobj])
                /\ last' = [Outcome("acquire", "handle") EXCEPT
                               !.attempts = co.attempts]
        /\ UNCHANGED <<tlsVars, db, containers, namespaces, states, catalogLog, call>>

\* with state.connect() as c: entering the scope
SqlState_connect(i, reachable) ==
    /\ i \in Held
    /\ states[i].kind = "SqlState"
    /\ Acquire(i, reachable)
    /\ UNCHANGED waiting

\* async with state.acquire() as c: entering the scope, the checkout
\* completing without the task having to wait
AsyncSqlState_acquire(i, reachable) ==
    /\ i \in Held
    /\ states[i].kind = "AsyncSqlState"
    /\ Acquire(i, reachable)
    /\ UNCHANGED waiting

\* async with state.acquire(): the task is suspended in
\* `async with self.engine.connect()`, waiting for the pool
AcquireSuspend(i) ==
    /\ i \in Held
    /\ states[i].kind = "AsyncSqlState"
    /\ waiting < MaxWaiting
    /\ waiting' = waiting + 1
    /\ UNCHANGED <<tlsVars, db, engines, containers, namespaces, states, handles,
                   catalogLog, call, last>>

\* a suspended acquire() is resumed: its checkout completes or fails
AcquireResume(i, reachable) ==
    /\ i \in Held
    /\ waiting > 0
    /\ waiting' = waiting - 1
    /\ Acquire(i, reachable)

\* the task of a suspended acquire() is cancelled before the engine has
\* handed it a connection: the checkout is abandoned inside the engine
AcquireCancelWaiting ==
    /\ waiting > 0
    /\ waiting' = waiting - 1
    /\ last' = Outcome("cancel", "waiting")
    /\ UNCHANGED <<tlsVars, db, engines, containers, namespaces, states, handles,
                   catalogLog, call>>

\* the generator of connect() / acquire() after its yield: the with block
\* around the yield exits, whether the body completed, returned early or
\* raised (exc)
AcquireExit(h, exc) ==
    /\ h \in DOMAIN handles
    /\ engines' = [engines EXCEPT ![handles[h].engine] =
                      connect_exit(@, IF exc THEN "error" ELSE "ok")]
    /\ handles' = [k \in 1..(Len(handles) - 1) |->
                      IF k < h THEN handles[k] ELSE handles[k + 1]]
    /\ last' = Outcome("release", IF exc THEN "reraised" ELSE "ok")
    /\ UNCHANGED <<waiting, tlsVars, db, containers, namespaces, states, catalogLog, call>>

\* the task holding non-blocking handle h is cancelled while suspended in
\* the body of `async with state.acquire()`: CancelledError is thrown into
\* the generator at its yield and leaves the async with block
AcquireCancel(h) ==
    /\ h \in DOMAIN handles
    /\ handles[h].kind = "AsyncSqlConnection"
    /\ engines' = [engines EXCEPT ![handles[h].engine] = connect_exit(@, "cancelled")]
    /\ handles' = [k \in 1..(Len(handles) - 1) |->
                      IF k < h THEN handles[k] ELSE handles[k + 1]]
    /\ last' = Outcome("cancel", "in_scope")
    /\ UNCHANGED <<waiting, tlsVars, db, containers, namespaces, states, catalogLog, call>>

-----------------------------------------------------------------------------
(* Lookups through the namespace *)

\* the namespace reached through the state object (via = 0) or handle via
NamespaceVia(via) ==
    IF via = 0 THEN namespaces[states[call.state].s] ELSE handles[via].s

Vias == (IF call.state = 0 THEN {} ELSE {0}) \cup DOMAIN handles

\* state.s.<alias>.<name> or handle.s.<alias>.<name>
Lookup(via, alias, name) ==
    /\ via \in Vias
    /\ alias \in DOMAIN NamespaceVia(via)
    /\ LET cid == NamespaceVia(via)[alias]
           r == SchemaContainer_getattr(containers[cid], name)
       IN  /\ containers' = [containers EXCEPT ![cid].tables = r.tables]
           /\ catalogLog' = catalogLog \o r.trips
           /\ last' = [op |-> "lookup", via |-> IF via = 0 THEN "state" ELSE "handle",
                       alias |-> alias,
                       name |-> name, result |-> r.result, attempts |-> 0]
    /\ UNCHANGED <<waiting, tlsVars, db, engines, namespaces, states, handles, call>>

-----------------------------------------------------------------------------
(* The specification *)

Next ==
    \/ \E sch \in SchemaNames, n \in RelNames : DbCreate(sch, n)
    \/ CallerCreateEngine
    \/ /\ call.factory = "none"
       /\ \E req \in SchemaRequests, failAt \in 0..MaxSchemas : sql_from_config(req, failAt)
    \/ /\ call.factory = "none"
       /\ \E req \in SchemaRequests, failAt \in 0..MaxSchemas : asql_from_config(req, failAt)
    \/ /\ call.factory = "none"
       /\ \E e \in DOMAIN engines, req \in SchemaRequests, failAt \in 0..MaxSchemas :
             asql_from_engine(e, req, failAt)
    \/ \E exc \in BOOLEAN : FactoryScopeExit(exc)
    \/ \E i \in DOMAIN states, exc \in BOOLEAN : SqlState_exit(i, exc)
    \/ \E i \in DOMAIN states, exc \in BOOLEAN : AsyncSqlState_aexit(i, exc)
    \/ \E i \in DOMAIN states, reachable \in BOOLEAN : SqlState_connect(i, reachable)
    \/ \E i \in DOMAIN states, reachable \in BOOLEAN : AsyncSqlState_acquire(i, reachable)
    \/ \E i \in DOMAIN states : AcquireSuspend(i)
    \/ \E i \in DOMAIN states, reachable \in BOOLEAN : AcquireResume(i, reachable)
    \/ AcquireCancelWaiting
    \/ \E h \in 1..PoolSize, exc \in BOOLEAN : AcquireExit(h, exc)
    \/ \E h \in 1..PoolSize : AcquireCancel(h)
    \/ \E via \in 0..PoolSize, alias \in AliasNames, n \in RelNames :
          Lookup(via, alias, n)

Spec == Init /\ [][Next]_vars

------------------------------------------------------------------------------
(* The connect arguments, for every configuration *)

InitTls ==
    /\ InitProgram
    /\ tlsIn \in TlsInputs
    /\ tlsOut = NotRendered

\* config.tls.to_connect_args() is called
RenderTls ==
    /\ tlsIn.tls # Absent
    /\ tlsOut' = [op |-> "to_connect_args", args |-> to_connect_args(tlsIn.tls[1])]
    /\ UNCHANGED <<tlsIn, programVars>>

\* sql_from_config(config) computes the connect_args of its engine
RenderBlocking ==
    /\ tlsOut' = [op |-> "sql_from_config",
                  args |-> sql_from_config_connect_args(tlsIn.tls)]
    /\ UNCHANGED <<tlsIn, programVars>>

\* asql_from_config(config, connect_args=...) computes the connect_args of
\* its non-blocking engine
RenderNonBlocking ==
    /\ tlsOut' = [op |-> "asql_from_config",
                  args |-> asql_from_config_connect_args(tlsIn.tls, tlsIn.connect_args)]
    /\ UNCHANGED <<tlsIn, programVars>>

NextTls ==
    \/ RenderTls
    \/ RenderBlocking
    \/ RenderNonBlocking

SpecTls == InitTls /\ [][NextTls]_vars

-----------------------------------------------------------------------------
(* Properties *)

\* the acquisition scopes currently open on engine e
OpenScopes(e) == { h \in DOMAIN handles : handles[h].engine = e }

\* the engine owned by the state object the caller holds
HeldEngine == states[call.state].engine

\* the schema the caller bound alias a to
RequestedSchema(a) == call.schemas[IndexOfAlias(call.schemas, a)].schema

Constructed == call.status \in {"returned", "yielded", "exited"}

\* C1: for connect() and acquire() alike, after any sequence of acquisitions
\* and scope exits (normal or by an error raised in the body) the number of
\* connections checked out of each engine equals the number of acquisition
\* scopes still open on it.
C1_ReleasedOnEveryExitPath ==
    \A e \in DOMAIN engines : engines[e].checkedout = Cardinality(OpenScopes(e))

\* C1 witness: a scope was just left through an error while another scope
\* of the same state object is still open.
C1_Witness ==
    /\ last.op = "release"
    /\ last.result.kind = "reraised"
    /\ Len(handles) = 1

\* C2: when reflection fails inside a factory, every engine the factory
\* constructed has been disposed by the time the error reaches the caller.
C2_EngineDisposedOnFailedConstruction ==
    call.status = "raised" =>
        \A e \in DOMAIN engines :
            engines[e].owner # "caller" => engines[e].disposals > 0

\* C3: whenever a state object has been exited, its engine's disposal
\* operation has been invoked exactly once, however often it was exited.
C3_DisposedExactlyOnce ==
    (last.op = "exit" /\ call.state # 0) => engines[HeldEngine].disposals = 1

\* C4: an acquisition attempted on a state object whose engine has been
\* disposed never yields a connection handle.
C4_DisposedIsTerminal ==
    (last.op = "acquire" /\ call.state # 0 /\ engines[HeldEngine].disposals > 0)
        => last.result.kind # "handle"

\* C5: once the scope opened by asql_from_config or asql_from_engine has
\* exited, the non-blocking engine the factory created has been disposed.
C5_FactoryScopeExitDisposes ==
    call.status = "exited" => engines[HeldEngine].disposals > 0

\* C6: looking up, through any declared alias, a table or view that was
\* present in the aliased schema when the state was constructed returns that
\* table's descriptor, whatever the table is called.
C6_PresentTablesResolve ==
    (last.op = "lookup" /\ last.name \in call.catalog[RequestedSchema(last.alias)])
        => last.result = TableDescriptor(RequestedSchema(last.alias), last.name)

\* C7: looking up a name that was not in the schema when it was reflected
\* fails with the not-found error and leaves every container's cached table
\* set as reflection left it.
C7_AbsentTablesNotFound ==
    (last.op = "lookup" /\ last.name \notin call.catalog[RequestedSchema(last.alias)])
        => /\ last.result = InvalidRequestError(RequestedSchema(last.alias), last.name)
           /\ \A c \in DOMAIN containers :
                 containers[c].tables = call.catalog[containers[c].name]

\* C8: for a state built by any of the three factories, the catalog round
\* trips ever made are exactly one per declared schema, made at construction,
\* in the order declared; lookups and acquisitions add none.
C8_ReflectOncePerSchema ==
    Constructed =>
        catalogLog = [i \in 1..Len(call.schemas) |-> call.schemas[i].schema]

\* C8 witness: two schemas were declared, a connection is checked out, and a
\* lookup has just failed for a relation that exists in the database by now.
C8_Witness ==
    /\ last.op = "lookup"
    /\ last.result.kind = "InvalidRequestError"
    /\ last.name \in db[last.result.schema]
    /\ Len(call.schemas) = 2
    /\ Len(handles) > 0

\* C9: whenever a connection handle exists, its namespace holds every alias
\* requested at construction, each bound to a published container of the
\* requested schema that caches the complete reflection of that schema.
C9_HandleNamespaceComplete ==
    \A h \in DOMAIN handles :
        /\ DOMAIN handles[h].s = AliasesOf(call.schemas)
        /\ \A a \in AliasesOf(call.schemas) :
              /\ handles[h].s[a] \in DOMAIN containers
              /\ containers[handles[h].s[a]].name = RequestedSchema(a)
              /\ containers[handles[h].s[a]].tables = call.catalog[RequestedSchema(a)]

\* C9 witness: a non-blocking handle exists on a state with two aliases.
C9_Witness ==
    /\ Len(handles) > 0
    /\ handles[1].kind = "AsyncSqlConnection"
    /\ Len(call.schemas) = 2

\* C10: if the reflection of any requested schema fails, no state object, no
\* namespace and no container is published; if none fails, the state object
\* handed out has a namespace with every requested alias.
C10_AllOrNothing ==
    /\ call.failAt # 0 =>
          /\ call.status = "raised"
          /\ call.state = 0
          /\ states = <<>>
          /\ namespaces = <<>>
          /\ containers = <<>>
    /\ (call.factory # "none" /\ call.failAt = 0) =>
          /\ Constructed
          /\ call.state \in DOMAIN states
          /\ DOMAIN namespaces[states[call.state].s] = AliasesOf(call.schemas)

\* C10 witness: the second of two requested schemas failed to reflect after
\* the first had been reflected.
C10_Witness ==
    /\ call.failAt = 2
    /\ call.status = "raised"
    /\ Len(catalogLog) = 2

\* C11: every handle shares the namespace object of its state object, and
\* an acquisition that the pool can serve yields a handle.
C11_ConcurrentAcquireSharesNamespace ==
    /\ \A h \in DOMAIN handles : handles[h].nsobj = states[handles[h].state].s
    /\ (last.op = "acquire" /\ last.result.kind # "CheckoutError")
          => last.result.kind = "handle"

\* C12: once the cancellation of an acquire() has propagated, whether the
\* task was waiting for the pool or suspended inside the scope, no
\* connection is checked out beyond those of the scopes still open.
C12_CancelledAcquireReleases ==
    last.op = "cancel" =>
        \A e \in DOMAIN engines : engines[e].checkedout = Cardinality(OpenScopes(e))

\* C12 witness: a task was cancelled inside its acquisition scope while a
\* second scope of the same state object stays open.
C12_Witness ==
    /\ last.op = "cancel"
    /\ last.result.kind = "in_scope"
    /\ Len(handles) = 1

\* the blocking SqlState that asql_from_engine built over the caller's engine
BlockingTwin ==
    states[CHOOSE i \in DOMAIN states :
              states[i].kind = "SqlState" /\ states[i].engine = call.engine]

\* C13: the AsyncSqlState produced by asql_from_engine has the aliases
\* requested, the same as the blocking SqlState over the caller's engine, and
\* every alias and relation name resolves to the same outcome in both.
C13_AsyncNamespaceMatchesBlocking ==
    (call.factory = "asql_from_engine" /\ Constructed) =>
        /\ states[call.state].kind = "AsyncSqlState"
        /\ states[call.state].s \in DOMAIN namespaces
        /\ LET nsa == namespaces[states[call.state].s]
               nsb == namespaces[BlockingTwin.s]
           IN  /\ DOMAIN nsa = AliasesOf(call.schemas)
               /\ DOMAIN nsa = DOMAIN nsb
               /\ \A a \in DOMAIN nsa, n \in RelNames :
                     SchemaContainer_getattr(containers[nsa[a]], n).result
                        = SchemaContainer_getattr(containers[nsb[a]], n).result

\* C13 witness: a state from asql_from_engine with two aliases has just
\* resolved a table through a handle.
C13_Witness ==
    /\ call.factory = "asql_from_engine"
    /\ Len(call.schemas) = 2
    /\ last.op = "lookup"
    /\ last.via = "handle"
    /\ last.result.kind = "Table"

\* C14: after construction no step changes a state object's alias ->
\* container mapping or a container's cached tables, and every handle that
\* exists after the step maps the aliases as its state object does.
C14_NamespaceHasNoWriters ==
    [][Constructed =>
          /\ namespaces' = namespaces
          /\ containers' = containers
          /\ \A h \in DOMAIN handles' :
                handles'[h].s = namespaces[states[handles'[h].state].s]]_vars

\* C14 witness: with two handles open, a lookup through a handle has just
\* failed for a relation that the database holds by now.
C14_Witness ==
    /\ last.op = "lookup"
    /\ last.via = "handle"
    /\ last.result.kind = "InvalidRequestError"
    /\ last.name \in db[last.result.schema]
    /\ Len(handles) = 2

\* C16: a step that ends in a failed checkout made exactly one checkout
\* attempt and left the handles and every engine's connections as they were.
C16_NoAutomaticRetry ==
    [][(last'.op = "acquire" /\ last'.result.kind = "CheckoutError") =>
          /\ last'.attempts = 1
          /\ handles' = handles
          /\ \A e \in DOMAIN engines : engines'[e].checkedout = engines[e].checkedout]_vars

\* C16 witness: a checkout has just failed while one earlier acquisition of
\* the same state object is still open, its connection the only one out.
C16_Witness ==
    /\ last.op = "acquire"
    /\ last.result.kind = "CheckoutError"
    /\ Len(handles) = 1
    /\ engines[HeldEngine].checkedout = 1

\* C17: whatever aliases the state was constructed with, an acquisition whose
\* checkout succeeds yields a handle whose namespace maps exactly the state's
\* aliases to the state's containers.
C17_AcquireWorksForEveryAlias ==
    (last.op = "acquire" /\ last.result.kind # "CheckoutError") =>
        /\ Len(handles) > 0
        /\ handles[Len(handles)].s = namespaces[states[call.state].s]

\* C18: once the scope opened by asql_from_config has exited, the blocking
\* engine it built through sql_from_config for reflection has been disposed.
C18_AuxiliaryEngineDisposed ==
    (call.factory = "asql_from_config" /\ call.status = "exited") =>
        \A e \in DOMAIN engines :
            engines[e].owner = "sql_from_config" => engines[e].disposals > 0

\* C19: under asql_from_engine the caller's blocking engine stays as the
\* caller built it: never disposed, never replaced, no connection kept.
C19_CallerEngineUntouched ==
    call.factory = "asql_from_engine" =>
        engines[call.engine] = NewEngine("blocking", "caller")

\* C19 witness: the state from asql_from_engine was exited, disposing the
\* derived engine, after the factory's scope had been left.
C19_Witness ==
    /\ call.factory = "asql_from_engine"
    /\ call.status = "exited"
    /\ last.op = "exit"
    /\ engines[HeldEngine].disposals > 0

\* the connect-argument key that to_connect_args uses for a path field
PathKey ==
    [f \in {"clientCert", "clientKey", "serverCa"} |->
        IF f = "clientCert" THEN "sslcert"
        ELSE IF f = "clientKey" THEN "sslkey" ELSE "sslrootcert"]

\* C15: the mapping rendered from a TLS block has the mode and one key per
\* path field that is set, each with the field's value, and no other key;
\* without a TLS block the factories get an empty TLS mapping, so the
\* blocking engine gets no connect argument and the non-blocking engine only
\* the caller's.
C15_ConnectArgsKeySet ==
    /\ tlsOut.op = "to_connect_args" =>
          LET tls == tlsIn.tls[1]
              set == {f \in DOMAIN PathKey : tls[f] # None}
          IN  /\ DOMAIN tlsOut.args = {"sslmode"} \cup {PathKey[f] : f \in set}
              /\ tlsOut.args["sslmode"] = tls.sslmode
              /\ \A f \in set : tlsOut.args[PathKey[f]] = tls[f]
    /\ (tlsOut.op = "sql_from_config" /\ tlsIn.tls = Absent) =>
          tlsOut.args = EmptyArgs
    /\ (tlsOut.op = "asql_from_config" /\ tlsIn.tls = Absent) =>
          tlsOut.args = IF tlsIn.connect_args = Absent THEN EmptyArgs
                        ELSE tlsIn.connect_args[1]

\* C15 witness: a block with only the client certificate set was rendered.
C15_Witness ==
    /\ tlsOut.op = "to_connect_args"
    /\ tlsIn.tls[1].clientCert # None
    /\ tlsIn.tls[1].clientKey = None
    /\ tlsIn.tls[1].serverCa = None
    /\ DOMAIN tlsOut.args = {"sslmode", "sslcert"}

\* C20: with a TLS block, the connect arguments of the non-blocking engine
\* hold every key of the TLS block with the block's value, also where the
\* caller supplied the key, and every other caller key with the caller's value.
C20_TlsWinsOverCallerArgs ==
    (tlsOut.op = "asql_from_config" /\ tlsIn.tls # Absent) =>
        LET tls == tlsIn.tls[1]
            caller == IF tlsIn.connect_args = Absent THEN EmptyArgs
                      ELSE tlsIn.connect_args[1]
            fromTls == {"sslmode"} \cup
                          {PathKey[f] : f \in {g \in DOMAIN PathKey : tls[g] # None}}
        IN  /\ DOMAIN tlsOut.args = fromTls \cup DOMAIN caller
            /\ tlsOut.args["sslmode"] = tls.sslmode
            /\ \A f \in DOMAIN PathKey :
                  tls[f] # None => tlsOut.args[PathKey[f]] = tls[f]
            /\ \A k \in DOMAIN caller \ fromTls : tlsOut.args[k] = caller[k]

\* C20 witness: caller and TLS block collide on two keys with different
\* values, and the caller has a key of its own.
C20_Witness ==
    /\ tlsOut.op = "asql_from_config"
    /\ tlsIn.tls # Absent
    /\ tlsIn.connect_args # Absent
    /\ DOMAIN tlsIn.connect_args[1] = {"sslmode", "sslcert", "connect_timeout"}
    /\ tlsIn.tls[1].clientCert # None
    /\ tlsOut.args["sslcert"] = tlsIn.tls[1].clientCert
    /\ tlsOut.args["connect_timeout"] = "10"

====
